---- MODULE Spec2Model ----
(***************************************************************************)
(* The three tutorial notebooks of the repository, read as programs.       *)
(*                                                                         *)
(* A notebook is a sequence of code cells run top to bottom in a kernel of *)
(* its own.  A kernel has a namespace (env: name -> object id) and a heap  *)
(* of objects (Python names are references: x.copy() makes a new object,   *)
(* x.numbers[0] = 9 and x.compute() change the object every name of it     *)
(* sees).  The kernels share the working directory (files).  A cell that   *)
(* raises stops its notebook's run (Run All stops at the first error); the *)
(* statements of the cell that ran before the error keep their effect.     *)
(*                                                                         *)
(* Lengths are integers in 1/100 Angstrom (7.5 A is 750).  A lazy abTEM    *)
(* object is its array kind ("dask" | "numpy") and the description of the  *)
(* task graph that produces its data (of), written with the source text of *)
(* the calls.                                                              *)
(***************************************************************************)
EXTENDS Integers, Sequences, FiniteSets, TLC

VARIABLES
    pc,       \* notebook -> index of the next code cell to run
    err,      \* notebook -> "none" or the exception that stopped the run
    env,      \* notebook -> namespace of its kernel: name -> heap index
    heap,     \* notebook -> objects of its kernel, in order of creation
    files,    \* path -> content in the working directory
    workers,  \* notebook -> worker processes its kernel started that are alive
    calls,    \* notebook -> the compute calls made so far: arguments, client
    surf      \* the cell ase.build.surface returns for srtio3.cif (an input)

vars == <<pc, err, env, heap, files, workers, calls, surf>>

Notebooks == {"atomic", "main", "supplement", "nanoparticle"}

\* How many notebooks a user has part-way through a run at the same time.
MaxActive == 1

\* Atoms of the surface cell that the input structure gives.
MaxSurfaceAtoms == 1

-----------------------------------------------------------------------------
(* Values *)

Absent == [kind |-> "absent"]

Dir == [kind |-> "dir"]

Atoms(numbers, positions, cell) ==
    [kind |-> "Atoms", numbers |-> numbers, positions |-> positions, cell |-> cell]

Obj(cls, array, of) == [kind |-> "object", cls |-> cls, array |-> array, of |-> of]

Desc(v) == IF v.kind = "object" THEN v.of ELSE <<v.kind>>

RECURSIVE Flatten(_)
Flatten(ss) == IF ss = <<>> THEN <<>> ELSE Head(ss) \o Flatten(Tail(ss))

-----------------------------------------------------------------------------
(* Statements of a cell *)

Stmt(op, target, names, uses, fn, arg) ==
    [op |-> op, target |-> target, names |-> names, uses |-> uses, fn |-> fn, arg |-> arg]

\* import ..., from ... import ..., a, b = f(...): binds names to one opaque object
Bind(names, uses, cls) == Stmt("bind", "", names, uses, cls, <<>>)

\* an expression statement: a display, a .show(), a help query
Eval(uses) == Stmt("eval", "", {}, uses, "", <<>>)

\* an expression statement that calls .compute(args) on a temporary
EvalCompute(uses, args) == Stmt("evalcompute", "", {}, uses, args, <<>>)

\* target = <a new object>
New(target, uses, fn, arg) == Stmt("new", target, {}, uses, fn, arg)

\* a statement that changes the object target names, in place
Mutate(target, uses, fn, arg) == Stmt("mutate", target, {}, uses \cup {target}, fn, arg)

\* target = read(file)
Read(target, uses, file) == Stmt("read", target, {}, uses, "", file)

\* write(file, var)
Write(uses, file, var) == Stmt("write", var, {}, uses \cup {var}, "", file)

-----------------------------------------------------------------------------
(* ase.Atoms operations used by the cells *)

Min(S) == CHOOSE x \in S : \A y \in S : x <= y

Max(S) == CHOOSE x \in S : \A y \in S : x >= y

\* atoms * (m1, m2, m3): the blocks are laid out with the last axis fastest
RepeatAtoms(a, m) ==
    LET n == Len(a.numbers)
        total == n * m[1] * m[2] * m[3]
        blk(k) == (k - 1) \div n
        src(k) == ((k - 1) % n) + 1
        off(k) == << (blk(k) \div (m[3] * m[2])) * a.cell[1],
                     ((blk(k) \div m[3]) % m[2]) * a.cell[2],
                     (blk(k) % m[3]) * a.cell[3] >>
    IN  Atoms([k \in 1..total |-> a.numbers[src(k)]],
              [k \in 1..total |-> [d \in 1..3 |-> a.positions[src(k)][d] + off(k)[d]]],
              [d \in 1..3 |-> a.cell[d] * m[d]])

\* atoms.symbols == symbol
SymbolsEq(a, z) == [kind |-> "mask", bits |-> [k \in 1..Len(a.numbers) |-> a.numbers[k] = z]]

\* a variant of the comparison: mask * (atoms.positions[:, axis] <= bound)
MaskAndAtOrBelow(mask, a, axis, bound) ==
    [kind |-> "mask",
     bits |-> [k \in 1..Len(mask.bits) |-> mask.bits[k] /\ a.positions[k][axis] <= bound]]

\* mask * (atoms.positions[:, axis] < bound)
MaskAndBelow(mask, a, axis, bound) ==
    [kind |-> "mask",
     bits |-> [k \in 1..Len(mask.bits) |-> mask.bits[k] /\ a.positions[k][axis] < bound]]

\* atoms.numbers[mask] = z
SetMasked(a, mask, z) ==
    [a EXCEPT !.numbers = [k \in 1..Len(a.numbers) |-> IF mask.bits[k] THEN z ELSE a.numbers[k]]]

\* atoms.numbers[i] = z (i counted from 1 here)
SetNumber(a, i, z) == [a EXCEPT !.numbers[i] = z]

\* atoms += other
Extend(a, other) ==
    [a EXCEPT !.numbers = @ \o other.numbers, !.positions = @ \o other.positions]

\* atoms.center(axis=axis, vacuum=vacuum)
Center(a, axis, vacuum) ==
    LET zs == {a.positions[k][axis] : k \in 1..Len(a.positions)}
        lo == Min(zs)
        hi == Max(zs)
    IN  [a EXCEPT !.cell[axis] = (hi - lo) + 2 * vacuum,
                  !.positions = [k \in 1..Len(a.positions) |->
                                   [a.positions[k] EXCEPT ![axis] = @ - lo + vacuum]]]

-----------------------------------------------------------------------------
(* Structure files *)

\* ase.io.write(file, atoms): species, the cell and the positions wrapped into it
StructureWrite(a, writer) ==
    IF a.kind = "Atoms"
    THEN [kind |-> "structure", numbers |-> a.numbers, cell |-> a.cell,
          wrapped |-> [k \in 1..Len(a.positions) |->
                         [d \in 1..3 |-> a.positions[k][d] % a.cell[d]]],
          writer |-> writer]
    ELSE [kind |-> "structure", numbers |-> <<>>, cell |-> <<>>, wrapped |-> Desc(a),
          writer |-> writer]

\* ase.io.read(file)
StructureRead(f) ==
    IF f.cell = <<>> THEN Obj("Atoms", "numpy", f.wrapped)
    ELSE Atoms(f.numbers, f.wrapped, f.cell)

-----------------------------------------------------------------------------
(* Running a statement.  K is what a statement can see and change: the     *)
(* kernel (env, heap, calls, err, workers) and the world (files, surf).    *)

Val(K, name) == K.heap[K.env[name]]

Alloc(K, names, v) ==
    [K EXCEPT !.heap = Append(@, v),
              !.env = [n \in names |-> Len(K.heap) + 1] @@ @]

Store(K, name, v) == [K EXCEPT !.heap[K.env[name]] = v]

Raise(K, e) == [K EXCEPT !.err = e]

LogCompute(K, args) ==
    [K EXCEPT !.calls = Append(@, [args |-> args, client |-> K.workers > 0])]

\* a variant of compute: the result is returned and the object is left lazy
ComputeNotInPlace(v) == v

\* x.compute(...): the object x names becomes a NumPy-backed object, in place
ComputeInPlace(v) ==
    IF v.kind = "list"
    THEN [v EXCEPT !.items = [i \in 1..Len(v.items) |-> [v.items[i] EXCEPT !.array = "numpy"]]]
    ELSE [v EXCEPT !.array = "numpy"]

\* The value of the right-hand side of target = ...
Construct(K, fn, arg) ==
    CASE fn = "atoms" -> arg
      [] fn = "copy" -> Val(K, arg.src)
      [] fn = "repeat" -> RepeatAtoms(Val(K, arg.src), arg.m)
      [] fn = "surface" -> K.surf
      [] fn = "symbols_eq" -> SymbolsEq(Val(K, arg.src), arg.z)
      [] fn = "mask_and_below" ->
            MaskAndBelow(Val(K, arg.mask), Val(K, arg.src), arg.axis, arg.bound)
      \* a call that makes an abTEM or plain object from the objects srcs names:
      \* "none" is a simulation object without an array, "dask" a lazy array
      \* (a task graph), "numpy" a computed one, "inherit" a method of an array
      \* object (lazy on a lazy object, computed on a computed one)
      [] fn = "object" ->
            Obj(arg.cls,
                IF arg.array = "inherit" THEN Val(K, arg.srcs[1]).array ELSE arg.array,
                Flatten([i \in 1..Len(arg.srcs) |-> Desc(Val(K, arg.srcs[i]))]) \o <<arg.text>>)
      \* abtem.Potential(atoms, ...): its lateral extent is that of the atoms' cell
      [] fn = "potential" ->
            LET a == Val(K, arg.src)
            IN  [kind |-> "object", cls |-> "Potential", array |-> "none",
                 of |-> Desc(a) \o <<arg.text>>,
                 extent |-> IF a.kind = "Atoms" THEN <<a.cell[1], a.cell[2]>> ELSE <<>>]
      \* abtem.GridScan(start, end, fractional=True, potential=potential): start and
      \* end are fractions <<numerator, denominator>> of the potential's extent
      [] fn = "grid_scan" ->
            LET extent == Val(K, arg.potential).extent
                At(f) == [d \in 1..2 |-> (f[d][1] * extent[d]) \div f[d][2]]
            IN  [kind |-> "object", cls |-> "GridScan", array |-> "none",
                 of |-> Flatten([i \in 1..Len(arg.srcs) |-> Desc(Val(K, arg.srcs[i]))])
                           \o <<arg.text>>,
                 start |-> At(arg.start), end |-> At(arg.end)]
      [] fn = "list" ->
            [kind |-> "list", items |-> [i \in 1..Len(arg.srcs) |-> Val(K, arg.srcs[i])]]
      \* probe.scan(scan, detectors=[...], potential): one lazy measurement per
      \* detector, in the order of the list
      [] fn = "scan_list" ->
            LET dets == Val(K, arg.detectors).items
                base == Flatten([i \in 1..Len(arg.srcs) |-> Desc(Val(K, arg.srcs[i]))])
            IN  [kind |-> "list",
                 items |-> [i \in 1..Len(dets) |->
                              Obj(arg.cls, "dask", base \o <<arg.text>> \o dets[i].of)]]
      \* abtem.stack(measurements, labels): label i goes to measurement i
      [] fn = "stack" ->
            LET ms == IF arg.list # "" THEN Val(K, arg.list).items
                      ELSE [i \in 1..Len(arg.srcs) |-> Val(K, arg.srcs[i])]
            IN  [kind |-> "object", cls |-> ms[1].cls, array |-> ms[1].array,
                 of |-> <<"stack">>,
                 items |-> [i \in 1..Len(ms) |-> [label |-> arg.labels[i], of |-> ms[i].of]]]
      \* abtem.from_zarr(file): a lazy object that reads the file when computed
      [] fn = "from_zarr" -> Obj(K.files[arg.file].cls, "dask", <<"from_zarr", arg.file>>)

\* The object after an in-place change
Apply(K, fn, arg, old) ==
    CASE fn = "set_number" -> SetNumber(old, arg.index, arg.z)
      [] fn = "extend" -> Extend(old, arg.other)
      [] fn = "set_masked" -> SetMasked(old, Val(K, arg.mask), arg.z)
      [] fn = "center" ->
            IF old.kind = "Atoms" THEN Center(old, arg.axis, arg.vacuum)
            ELSE [old EXCEPT !.of = Append(@, arg.text)]
      [] fn = "compute" -> ComputeInPlace(old)
      \* any other method that changes the object: recorded in its description
      [] fn = "method" -> [old EXCEPT !.of = Append(@, arg.text)]

Exec(K, s) ==
    IF ~(s.uses \subseteq DOMAIN K.env) THEN Raise(K, "NameError")
    ELSE CASE s.op = "bind" -> Alloc(K, s.names, Obj(s.fn, "numpy", <<>>))
           [] s.op = "eval" -> K
           [] s.op = "evalcompute" -> LogCompute(K, s.fn)
           [] s.op = "new" ->
                 IF s.fn = "from_zarr" /\ K.files[s.arg.file].kind # "zarr"
                 THEN Raise(K, "FileNotFoundError")
                 ELSE Alloc(K, {s.target}, Construct(K, s.fn, s.arg))
           [] s.op = "mutate" ->
                 LET K1 == IF s.fn = "compute" THEN LogCompute(K, s.arg.args) ELSE K
                 IN  Store(K1, s.target, Apply(K, s.fn, s.arg, Val(K, s.target)))
           [] s.op = "read" ->
                 IF K.files[s.arg].kind # "structure" THEN Raise(K, "FileNotFoundError")
                 ELSE Alloc(K, {s.target}, StructureRead(K.files[s.arg]))
           [] s.op = "write" ->
                 [K EXCEPT !.files[s.arg] = StructureWrite(Val(K, s.target), K.nb)]
           \* x.to_zarr(file): runs the task graph and stores the result; x stays lazy
           [] s.op = "to_zarr" ->
                 IF K.files[s.arg].kind # "absent" THEN Raise(K, "ContainsArrayError")
                 ELSE [K EXCEPT
                          !.files[s.arg] = [kind |-> "zarr", cls |-> Val(K, s.target).cls,
                                            data |-> Val(K, s.target).of, writer |-> K.nb]]
           \* animation.save(file): needs the directory of the file
           [] s.op = "save" ->
                 IF K.files[s.arg.dir].kind # "dir" THEN Raise(K, "FileNotFoundError")
                 ELSE [K EXCEPT !.files[s.arg.file] = [kind |-> "gif", writer |-> K.nb]]
           \* Client(n_workers=n, ...): starts a local cluster of n worker processes
           \* and makes it the scheduler of the kernel's later compute calls
           [] s.op = "client" ->
                 Alloc([K EXCEPT !.workers = s.arg.n_workers], {s.target},
                       Obj("Client", "numpy", <<s.arg.text>>))

\* The statements of a cell from the i-th on, until one raises
RECURSIVE RunFrom(_, _, _)
RunFrom(K, cell, i) ==
    IF i > Len(cell) \/ K.err # "none" THEN K
    ELSE RunFrom(Exec(K, cell[i]), cell, i + 1)

-----------------------------------------------------------------------------
(* Shorthands for the statements the cells are written with *)

Range(seq) == {seq[i] : i \in DOMAIN seq}

Import(names) == Bind(names, {}, "module")

Object(target, uses, cls, array, srcs, text) ==
    New(target, uses \cup Range(srcs), "object",
        [cls |-> cls, array |-> array, srcs |-> srcs, text |-> text])

Potential(target, uses, src, text) ==
    New(target, uses \cup {src}, "potential", [src |-> src, text |-> text])

GridScan(target, uses, srcs, potential, start, end, text) ==
    New(target, uses \cup Range(srcs), "grid_scan",
        [srcs |-> srcs, potential |-> potential, start |-> start, end |-> end,
         text |-> text])

Copy(target, src) == New(target, {src}, "copy", [src |-> src])

Method(target, uses, text) == Mutate(target, uses, "method", [text |-> text])

Compute(target, args) == Mutate(target, {}, "compute", [args |-> args])

ToZarr(var, file) == Stmt("to_zarr", var, {}, {var}, "", file)

FromZarr(target, uses, file) == New(target, uses, "from_zarr", [file |-> file])

Save(var, dir, file) == Stmt("save", var, {}, {var}, "", [dir |-> dir, file |-> file])

StartClient(target, uses, n, text) ==
    Stmt("client", target, {}, uses, "", [n_workers |-> n, text |-> text])

-----------------------------------------------------------------------------
(* atomic_models_with_ase.ipynb *)

\* cells 442fc8cf .. a296bc6a: the imports and the N2 molecule
AtomsObjectCells ==
    << << Import({"abtem", "ase", "plt", "np", "view"}) >>,
       << New("atoms", {"ase"}, "atoms",
              Atoms(<<7, 7>>, << <<0, 0, 0>>, <<100, 0, 0>> >>, <<600, 600, 600>>)) >>,
       << Eval({"atoms"}) >>,
       << Eval({"atoms"}) >>,
       << Eval({"atoms"}) >>,
       << Mutate("atoms", {}, "set_number", [index |-> 1, z |-> 9]) >>,
       << Mutate("atoms", {"ase"}, "extend",
                 [other |-> Atoms(<<7>>, << <<200, 0, 0>> >>, <<0, 0, 0>>)]),
          Eval({"atoms"}) >> >>

\* cells d9d0cf6a, 73bab343
VisualizationCells ==
    << << Eval({"abtem", "atoms"}) >>,
       << Import({"view"}), Eval({"view", "atoms"}) >> >>

\* cells 4f42ab49, 420f70f6
ImportingCells ==
    << << Read("srtio3", {"ase"}, "srtio3.cif"), Eval({"abtem", "srtio3"}) >>,
       << Eval({"view", "srtio3"}) >> >>

\* cell b0f71ca6
SurfaceCell ==
    << Import({"surface"}),
       New("srtio3_110", {"surface", "srtio3"}, "surface", [src |-> "srtio3"]),
       Eval({"abtem", "srtio3_110"}) >>

\* a variant of cell 41e43aca: repeated_srtio3 = srtio3_110 * (2, 4, 10)
RepeatCellTwoFourTen ==
    << Copy("repeated_srtio3", "srtio3_110"),
       New("repeated_srtio3", {"srtio3_110"}, "repeat",
           [src |-> "srtio3_110", m |-> <<2, 4, 10>>]),
       Eval({"abtem", "repeated_srtio3"}) >>

\* cell 41e43aca
RepeatCell ==
    << Copy("repeated_srtio3", "srtio3_110"),
       New("repeated_srtio3", {"srtio3_110"}, "repeat",
           [src |-> "srtio3_110", m |-> <<3, 4, 10>>]),
       Eval({"abtem", "repeated_srtio3"}) >>

\* cell 180a89b1
ShowRepeatedCell == << Eval({"abtem", "repeated_srtio3"}) >>

\* cell fbd928f8: Sr is 38, La is 57, 7.5 A is 750, y is axis 2
InterfaceCell ==
    << Copy("sto_lto", "repeated_srtio3"),
       New("mask", {"sto_lto"}, "symbols_eq", [src |-> "sto_lto", z |-> 38]),
       New("mask", {"mask", "sto_lto"}, "mask_and_below",
           [mask |-> "mask", src |-> "sto_lto", axis |-> 2, bound |-> 750]),
       Mutate("sto_lto", {"mask"}, "set_masked", [mask |-> "mask", z |-> 57]) >>

\* cell bfda0e1c: z is axis 3, 5 A is 500
CenterCell ==
    << Mutate("sto_lto", {}, "center",
              [axis |-> 3, vacuum |-> 500, text |-> "center(axis=2, vacuum=5)"]) >>

\* cell e82bee94
ShowStoLtoCell ==
    << Bind({"fig", "ax1", "ax2"}, {"plt"}, "figure"),
       Eval({"abtem", "sto_lto", "ax1"}),
       Eval({"abtem", "sto_lto", "ax2"}) >>

\* a variant of cell ba702810: write("sto_lto.cif", repeated_srtio3)
ExportCellOfRepeated ==
    << Import({"write"}),
       Write({"write"}, "sto_lto.cif", "repeated_srtio3") >>

\* a variant of cell ba702810: write("srtio3.cif", sto_lto)
ExportCellOverSource ==
    << Import({"write"}),
       Write({"write"}, "srtio3.cif", "sto_lto") >>

\* cell ba702810
ExportCell ==
    << Import({"write"}),
       Write({"write"}, "sto_lto.cif", "sto_lto") >>

\* cells 4c6eff22, daa2fe94
OrthogonalCells ==
    << << Object("graphene", {"ase"}, "Atoms", "numpy", <<>>, "graphene(vacuum=2, a=2.46)"),
          Eval({"abtem", "graphene"}) >>,
       << Object("orthogonal_graphene", {"abtem"}, "Atoms", "numpy", <<"graphene">>,
                 "orthogonalize_cell(return_transform=True)"),
          Object("transform", {"abtem"}, "transform", "numpy", <<"graphene">>,
                 "orthogonalize_cell(return_transform=True)"),
          Eval({"abtem", "orthogonal_graphene"}) >> >>

AtomicCells ==
    AtomsObjectCells \o VisualizationCells \o ImportingCells
      \o << SurfaceCell, RepeatCell, ShowRepeatedCell, InterfaceCell, CenterCell,
            ShowStoLtoCell, ExportCell >>
      \o OrthogonalCells

-----------------------------------------------------------------------------
(* image_simulation_with_abtem.ipynb *)

\* cells 6448b3c6, b20f7bf4
MainSetupCells ==
    << << Import({"abtem", "ase", "plt", "np"}),
          Eval({"abtem"}), Eval({"abtem"}), Eval({"abtem"}), Eval({"abtem"}), Eval({"abtem"}) >>,
       << Eval({"abtem"}) >> >>

\* cell 6361c021
MainReadCell ==
    << Read("atoms", {"ase"}, "sto_lto.cif"),
       Bind({"fig", "ax1", "ax2"}, {"plt"}, "figure"),
       Eval({"abtem", "atoms", "ax1"}),
       Eval({"abtem", "atoms", "ax2"}) >>

\* cells 0022a799, 9f363213
PotentialCells ==
    << << Potential("potential", {"abtem"}, "atoms",
                 "Potential(sampling=0.05, slice_thickness=2)") >>,
       << Eval({"potential"}) >> >>

\* cell 285732bc
BuildCell ==
    << Object("potential_array", {}, "PotentialArray", "dask", <<"potential">>, "build()") >>

\* cell 411a929f
ShowLazyArrayCell == << Eval({"potential_array"}) >>

\* cell 0b114d9a
ComputeCell == << Compute("potential_array", "") >>

\* cells 7be78c6e .. 241c4fc6 (300696be holds a comment only)
ShowPotentialCells ==
    << << Eval({"potential_array"}) >>,
       << Eval({"potential_array"}) >>,
       << >>,
       << Eval({"potential_array"}) >> >>

\* cells d617dba2 .. 30720766
ProbeCells ==
    << << Eval({"abtem"}) >>,
       << Object("probe", {"abtem"}, "Probe", "none", <<>>,
                 "Probe(energy=150e3, defocus=50, semiangle_cutoff=20, Cs=0.)") >>,
       << Method("probe", {"potential"}, "grid.match(potential)") >>,
       << Object("probe_waves", {}, "Waves", "dask", <<"probe">>, "build()"),
          Eval({"probe_waves"}) >>,
       << Compute("probe_waves", "") >>,
       << Eval({"probe_waves"}) >>,
       << Eval({"probe_waves"}) >>,
       << Object("focal_series", {"np"}, "ndarray", "numpy", <<>>, "linspace(0, 200, 5)"),
          Object("focal_series_probe", {"abtem"}, "Probe", "none", <<"focal_series">>,
                 "Probe(energy=200e3, semiangle_cutoff=20, extent=10, sampling=0.05)") >>,
       << EvalCompute({"focal_series_probe"}, "") >>,
       << Eval({"focal_series_probe"}) >> >>

\* cells 3b87ec18 .. d7f4cbf2
CbedCells ==
    << << Object("position", {}, "list", "numpy", <<>>, "[(8, 8), (6, 8), (4, 8)]"),
          Object("exit_wave", {}, "Waves", "dask", <<"probe", "potential", "position">>,
                 "multislice()") >>,
       << Compute("exit_wave", "") >>,
       << Object("exit_wave_image", {}, "Images", "inherit", <<"exit_wave">>, "intensity()"),
          Eval({"exit_wave_image"}) >>,
       << Object("exit_wave_diffraction", {}, "DiffractionPatterns", "inherit",
                 <<"exit_wave">>, "diffraction_patterns(max_angle=100)"),
          Eval({"exit_wave_diffraction"}) >> >>

\* cells 4b82bec1, 9e5a1f73
MainScanCells ==
    << << GridScan("scan", {"abtem"}, <<"probe", "potential">>, "potential",
                 << <<0, 1>>, <<0, 1>> >>, << <<1, 3>>, <<1, 1>> >>,
                 "GridScan(start=(0, 0), end=(1 / 3, 1), fractional=True)") >>,
       << Bind({"fig", "ax"}, {"abtem", "atoms"}, "figure"),
          Eval({"scan", "ax"}) >> >>

\* a variant of cell 92bf1128: detectors = [bright, haadf, maadf]
DetectorsCellReordered ==
    << Object("bright", {"abtem"}, "AnnularDetector", "none", <<>>,
              "AnnularDetector(inner=0, outer=20)"),
       Object("maadf", {"abtem"}, "AnnularDetector", "none", <<>>,
              "AnnularDetector(inner=50, outer=120)"),
       Object("haadf", {"abtem"}, "AnnularDetector", "none", <<>>,
              "AnnularDetector(inner=100, outer=180)"),
       New("detectors", {"bright", "maadf", "haadf"}, "list",
           [srcs |-> <<"bright", "haadf", "maadf">>]) >>

\* cell 92bf1128
DetectorsCell ==
    << Object("bright", {"abtem"}, "AnnularDetector", "none", <<>>,
              "AnnularDetector(inner=0, outer=20)"),
       Object("maadf", {"abtem"}, "AnnularDetector", "none", <<>>,
              "AnnularDetector(inner=50, outer=120)"),
       Object("haadf", {"abtem"}, "AnnularDetector", "none", <<>>,
              "AnnularDetector(inner=100, outer=180)"),
       New("detectors", {"bright", "maadf", "haadf"}, "list",
           [srcs |-> <<"bright", "maadf", "haadf">>]) >>

\* cells 103f323b .. 3541a5a2
RegionCells ==
    << << Eval({"probe"}) >>,
       << Object("bright_region", {}, "Images", "numpy", <<"bright", "probe">>,
                 "get_detector_region()"),
          Object("maadf_region", {}, "Images", "numpy", <<"maadf", "probe">>,
                 "get_detector_region()"),
          Object("haadf_region", {}, "Images", "numpy", <<"haadf", "probe">>,
                 "get_detector_region()") >>,
       << New("stacked_regions", {"abtem", "bright_region", "maadf_region", "haadf_region"},
              "stack", [list |-> "", srcs |-> <<"bright_region", "maadf_region", "haadf_region">>,
                        labels |-> <<"bright", "MAADF", "HAADF">>]),
          Bind({"visualization"}, {"stacked_regions"}, "visualization") >> >>

\* cell cde5d8d1
ScanCell ==
    << New("scanned_measurements", {"probe", "scan", "detectors", "potential"}, "scan_list",
           [cls |-> "Images", detectors |-> "detectors",
            srcs |-> <<"probe", "potential", "scan">>, text |-> "scan()"]),
       Compute("scanned_measurements", "") >>

\* cell 7850a352
StackCell ==
    << New("stacked_measurements", {"abtem", "scanned_measurements"}, "stack",
           [list |-> "scanned_measurements", srcs |-> <<>>,
            labels |-> <<"BF", "MAADF", "HAADF">>]),
       Eval({"stacked_measurements"}) >>

\* cells 4db32b5f .. e0c76044
PostProcessingCells ==
    << << Object("interpolated_measurements", {}, "Images", "inherit",
                 <<"stacked_measurements">>, "interpolate(0.1)"),
          Eval({"interpolated_measurements"}) >>,
       << Object("blurred_measurements", {}, "Images", "inherit",
                 <<"interpolated_measurements">>, "gaussian_filter(0.4)"),
          Eval({"blurred_measurements"}) >>,
       << Object("tiled_measurements", {}, "Images", "inherit",
                 <<"blurred_measurements">>, "tile((8, 3))") >>,
       << Object("noisy_measurements", {}, "Images", "inherit",
                 <<"tiled_measurements">>, "poisson_noise(dose_per_area=1e4, seed=100)") >>,
       << Eval({"noisy_measurements"}) >> >>

MainCells ==
    MainSetupCells \o << MainReadCell >> \o PotentialCells
      \o << BuildCell, ShowLazyArrayCell, ComputeCell >> \o ShowPotentialCells
      \o ProbeCells \o CbedCells \o MainScanCells \o << DetectorsCell >> \o RegionCells
      \o << ScanCell, StackCell >> \o PostProcessingCells

-----------------------------------------------------------------------------
(* image_simulation_with_abtem_supplement.ipynb, first notebook document *)

\* the import cell
SuppImportCell ==
    << Import({"abtem", "ase", "plt", "np"}),
       Eval({"abtem"}), Eval({"abtem"}), Eval({"abtem"}), Eval({"abtem"}), Eval({"abtem"}) >>

\* atoms = ase.io.read("sto_lto.cif")
SuppReadCell == << Read("atoms", {"ase"}, "sto_lto.cif"), Eval({"abtem", "atoms"}) >>

\* HRTEM simulations with PlaneWave
HrtemCells ==
    << << Object("plane_wave", {"abtem"}, "PlaneWave", "none", <<>>, "PlaneWave(energy=150e3)") >>,
       << Potential("potential", {"abtem"}, "atoms",
                 "Potential(sampling=0.05, slice_thickness=2, exit_planes=1)") >>,
       << Object("exit_wave", {}, "Waves", "dask", <<"plane_wave", "potential">>, "multislice()"),
          Compute("exit_wave", "") >>,
       << Eval({"exit_wave"}) >>,
       << Object("Cs", {}, "float", "numpy", <<>>, "-100e-6 * 1e10"),
          Object("focal_series", {"np"}, "ndarray", "numpy", <<>>, "linspace(0, 200, 5)"),
          Object("ctf", {"abtem"}, "CTF", "none", <<"Cs", "focal_series">>, "CTF(energy=150e3)") >>,
       << >>,
       << Eval({"ctf"}) >>,
       << Method("ctf", {}, "semiangle_cutoff = crossover_angle") >>,
       << Object("image", {}, "Images", "inherit", <<"exit_wave", "ctf">>,
                 "apply_ctf().intensity()") >>,
       << Eval({"image"}) >>,
       << Object("noisy_image", {}, "Images", "inherit", <<"image">>,
                 "tile((2, 2)).poisson_noise(1e4)"),
          Eval({"noisy_image"}) >> >>

\* the cell that recreates atoms, potential, probe and scan
RecreateCell ==
    << Read("atoms", {"ase"}, "sto_lto.cif"),
       Potential("potential", {"abtem"}, "atoms",
              "Potential(sampling=0.05, slice_thickness=2)"),
       Object("probe", {"abtem"}, "Probe", "none", <<>>,
              "Probe(energy=150e3, defocus=50, semiangle_cutoff=20)"),
       GridScan("scan", {"abtem"}, <<"probe", "potential">>, "potential",
              << <<0, 1>>, <<0, 1>> >>, << <<1, 3>>, <<1, 1>> >>,
              "GridScan(start=(0, 0), end=(1 / 3, 1), fractional=True)") >>

\* detector = abtem.PixelatedDetector(max_angle=100)
PixelatedDetectorCell ==
    << Object("detector", {"abtem"}, "PixelatedDetector", "none", <<>>,
              "PixelatedDetector(max_angle=100)") >>

\* measurement_4d = probe.scan(scan=scan, potential=potential, detectors=detector)
Scan4dCell ==
    << Object("measurement_4d", {}, "DiffractionPatterns", "dask",
              <<"probe", "potential", "scan", "detector">>, "scan()"),
       Eval({"measurement_4d"}) >>

\* a variant of the to_zarr cell: probe.to_zarr("measurement_4d.zarr")
ToZarrCellOfProbe == << ToZarr("probe", "measurement_4d.zarr") >>

\* measurement_4d.to_zarr("measurement_4d.zarr")
ToZarrCell == << ToZarr("measurement_4d", "measurement_4d.zarr") >>

\* measurement_4d = abtem.from_zarr("measurement_4d.zarr")
FromZarrCell ==
    << FromZarr("measurement_4d", {"abtem"}, "measurement_4d.zarr"),
       Eval({"measurement_4d"}) >>

\* the rest of the 4D-STEM section
Reduce4dCells ==
    << << Eval({"measurement_4d"}) >>,
       << Eval({"measurement_4d"}) >>,
       << Object("polar_binned", {}, "PolarMeasurements", "inherit", <<"measurement_4d">>,
                 "polar_binning(nbins_radial=100, nbins_azimuthal=1)"),
          Eval({"polar_binned"}) >>,
       << Object("binned_images", {}, "Images", "dask", <<"polar_binned">>,
                 "to_image_ensemble()"),
          Compute("binned_images", ""),
          Method("binned_images", {}, "interpolate(0.1).tile((3, 1))"),
          Eval({"binned_images"}) >>,
       << Object("center_of_mass", {}, "Images", "inherit", <<"measurement_4d">>,
                 "center_of_mass(units=1/A)"),
          Eval({"center_of_mass"}) >>,
       << Object("interpolated_center_of_mass", {}, "Images", "inherit", <<"center_of_mass">>,
                 "interpolate(0.1).tile((3, 1))"),
          Eval({"interpolated_center_of_mass"}) >>,
       << Eval({"interpolated_center_of_mass"}) >>,
       << Object("integrated_gradient", {}, "Images", "inherit",
                 <<"interpolated_center_of_mass">>, "integrate_gradient()"),
          Eval({"integrated_gradient"}) >> >>

\* The frozen phonon model
FrozenPhononCells ==
    << << Eval({"atoms"}) >>,
       << Object("sigmas", {}, "dict", "numpy", <<>>, "{O: .1, Sr: .1, La: .1, Ti: .1}"),
          Object("frozen_phonons", {"abtem"}, "FrozenPhonons", "none", <<"atoms", "sigmas">>,
                 "FrozenPhonons(atoms * (1, 1, 4), num_configs=8)") >>,
       << Object("iterator", {}, "iterator", "numpy", <<"frozen_phonons">>, "iter()") >>,
       << Object("config", {}, "Atoms", "numpy", <<"iterator">>, "next()"),
          Eval({"abtem", "config"}) >>,
       << Object("frozen_phonon_potential", {"abtem"}, "Potential", "none",
                 <<"frozen_phonons">>, "Potential(sampling=0.05, slice_thickness=2)") >>,
       << EvalCompute({"frozen_phonon_potential"}, "") >>,
       << Object("exit_waves", {}, "Waves", "dask", <<"probe", "frozen_phonon_potential">>,
                 "multislice()"),
          Eval({"exit_waves"}) >>,
       << Compute("exit_waves", "") >>,
       << Eval({"exit_waves"}) >>,
       << Eval({"exit_waves"}) >>,
       << Eval({"probe"}) >>,
       << Object("mean_diffraction_pattern", {}, "DiffractionPatterns", "inherit",
                 <<"exit_waves">>, "diffraction_patterns().mean(0)") >>,
       << >>,
       << Eval({"mean_diffraction_pattern"}) >> >>

\* from ase.io import read; cluster = read("cluster_on_carbon.cfg")
ReadClusterCell ==
    << Import({"read"}),
       Read("cluster", {"read"}, "cluster_on_carbon.cfg"),
       Eval({"cluster", "np"}) >>

\* the rest of the PRISM section
PrismCells ==
    << << Eval({"abtem", "cluster"}) >>,
       << Object("cluster_potential", {"abtem"}, "Potential", "none", <<"cluster">>,
                 "Potential(gpts=768, slice_thickness=2)"),
          Object("S", {"abtem"}, "SMatrix", "none", <<"cluster_potential">>,
                 "SMatrix(interpolation=6, energy=150e3, semiangle_cutoff=25)"),
          Eval({"S"}) >>,
       << Eval({"S"}) >>,
       << Object("ctf", {"abtem"}, "CTF", "none", <<>>, "CTF(defocus=[0, 70])"),
          Eval({"S", "ctf"}) >>,
       << Eval({"S"}) >>,
       << Object("plane_waves", {}, "Waves", "dask", <<"S">>, "build().waves") >>,
       << EvalCompute({"plane_waves"}, "") >>,
       << Object("maadf_detector", {"abtem"}, "AnnularDetector", "none", <<>>,
                 "AnnularDetector(inner=60, outer=150)") >>,
       << Object("image_prism", {}, "Images", "dask", <<"S", "maadf_detector", "ctf">>,
                 "scan(max_batch_reduction=50)") >>,
       << Eval({"image_prism"}) >>,
       << Compute("image_prism", "") >>,
       << Eval({"image_prism"}) >> >>

\* the two cells that rebuild exit_waves; the second computes it on two threads
ThreadsCells ==
    << << Object("exit_waves", {}, "Waves", "dask", <<"probe", "frozen_phonon_potential">>,
                 "multislice()"),
          Eval({"exit_waves"}) >>,
       << Object("exit_waves", {}, "Waves", "dask", <<"probe", "frozen_phonon_potential">>,
                 "multislice()"),
          Compute("exit_waves", "scheduler=threads, num_workers=2") >>,
       << >> >>

\* a variant of the Client cell: client = Client(n_workers=2, threads_per_worker=1)
ClientCellTwoWorkers ==
    << Import({"Client"}),
       StartClient("client", {"Client"}, 2, "Client(n_workers=2, threads_per_worker=1)"),
       Eval({"client"}) >>

\* from dask.distributed import Client; client = Client(n_workers=4, threads_per_worker=1)
ClientCell ==
    << Import({"Client"}),
       StartClient("client", {"Client"}, 4, "Client(n_workers=4, threads_per_worker=1)"),
       Eval({"client"}) >>

\* a variant of the last cell: exit_waves.compute(scheduler="threads", num_workers=2)
DistributedComputeCellWithArgs ==
    << Object("exit_waves", {}, "Waves", "dask", <<"probe", "frozen_phonon_potential">>,
              "multislice()"),
       Compute("exit_waves", "scheduler=threads, num_workers=2") >>

\* exit_waves = probe.multislice(...); exit_waves.compute()
DistributedComputeCell ==
    << Object("exit_waves", {}, "Waves", "dask", <<"probe", "frozen_phonon_potential">>,
              "multislice()"),
       Compute("exit_waves", "") >>

SuppCells ==
    << SuppImportCell, SuppReadCell >> \o HrtemCells
      \o << RecreateCell, PixelatedDetectorCell, Scan4dCell, ToZarrCell, FromZarrCell >>
      \o Reduce4dCells \o FrozenPhononCells \o << ReadClusterCell >> \o PrismCells
      \o ThreadsCells \o << ClientCell, DistributedComputeCell >>

-----------------------------------------------------------------------------
(* image_simulation_with_abtem_supplement.ipynb, second notebook document: *)
(* the nanoparticle on amorphous carbon                                    *)

\* the cells that build cluster_on_carbon
NanoBuildCells ==
    << << Import({"abtem", "ase", "plt", "np", "view"}) >>,
       << Import({"bulk"}),
          Object("carbon", {"bulk"}, "Atoms", "numpy", <<>>, "bulk(C, cubic=True)"),
          Method("carbon", {}, "*= (14, 14, 14)"),
          Method("carbon", {"np"}, "positions[:] += randn * 0.5"),
          Method("carbon", {}, "wrap()"),
          Eval({"abtem", "carbon"}) >>,
       << Import({"Decahedron"}),
          Object("cluster", {"Decahedron"}, "Atoms", "numpy", <<>>, "Decahedron(Cu, 10, 2, 0)"),
          Method("cluster", {}, "rotate(x, 30)"),
          Eval({"abtem", "cluster"}) >>,
       << Object("center_height", {}, "int", "numpy", <<>>, "30"),
          Copy("translated_cluster", "cluster"),
          Method("translated_cluster", {"np", "carbon", "center_height"},
                 "translate(diag(carbon.cell) / 2 + (0, 0, center_height))") >>,
       << Object("cluster_on_carbon", {}, "Atoms", "numpy", <<"carbon", "translated_cluster">>,
                 "+"),
          Eval({"abtem", "cluster_on_carbon"}) >>,
       << Mutate("cluster_on_carbon", {}, "center",
                 [axis |-> 3, vacuum |-> 400, text |-> "center(axis=2, vacuum=4)"]) >>,
       << Copy("rotated", "cluster_on_carbon"),
          Method("rotated", {}, "rotate(x, 180, rotate_cell=True)") >>,
       << Bind({"fig", "ax1", "ax2"}, {"plt"}, "figure"),
          Eval({"abtem", "rotated", "ax1"}),
          Eval({"abtem", "cluster_on_carbon", "ax2"}) >> >>

\* potential, projected, and the animation saved as potential.gif
NanoPotentialCells ==
    << << Potential("potential", {"abtem"}, "cluster_on_carbon",
                 "Potential(sampling=.05)") >>,
       << Object("projected", {}, "Images", "dask", <<"potential">>, "build().to_images()"),
          Compute("projected", "") >>,
       << Bind({"fig", "ax"}, {"plt"}, "figure"),
          Bind({"visualization"}, {"projected", "ax"}, "visualization"),
          Method("visualization", {}, "axis_off()"),
          Method("visualization", {}, "adjust_tight_bbox()"),
          Bind({"animation"}, {"visualization"}, "animation"),
          Save("animation", "../intro_multislice", "../intro_multislice/potential.gif") >> >>

\* write("cluster_on_carbon.cfg", cluster_on_carbon)
NanoWriteCell == << Write({"write"}, "cluster_on_carbon.cfg", "cluster_on_carbon") >>

NanoCells == NanoBuildCells \o NanoPotentialCells \o << NanoWriteCell >>

-----------------------------------------------------------------------------
(* The working directory and the input structure *)

Paths ==
    {"srtio3.cif", "sto_lto.cif", "cluster_on_carbon.cfg", "measurement_4d.zarr",
     "../intro_multislice", "../intro_multislice/potential.gif"}

\* srtio3.cif: the cubic unit cell of SrTiO3 (a = 3.90 A)
Srtio3File ==
    StructureWrite(Atoms(<<38, 22, 8, 8, 8>>,
                         << <<0, 0, 0>>, <<195, 195, 195>>, <<195, 195, 0>>,
                            <<195, 0, 195>>, <<0, 195, 195>> >>,
                         <<390, 390, 390>>), "shipped")

\* a cluster_on_carbon.cfg that is in the directory before any notebook runs
ClusterFile == StructureWrite(Obj("Atoms", "numpy", <<"cluster_on_carbon.cfg">>), "shipped")

\* The directories a run can start in: srtio3.cif is there, nothing a notebook
\* writes is; cluster_on_carbon.cfg and the sibling directory may be there or not.
InitialFiles ==
    {[p \in Paths |->
        CASE p = "srtio3.cif" -> Srtio3File
          [] p = "cluster_on_carbon.cfg" -> IF c THEN ClusterFile ELSE Absent
          [] p = "../intro_multislice" -> IF d THEN Dir ELSE Absent
          [] OTHER -> Absent] : c \in BOOLEAN, d \in BOOLEAN}

\* The structures taken for the result of surface(srtio3, indices=(1, 1, 0),
\* layers=2, periodic=True): a cell of 5.52 x 3.90 x 5.52 A with Sr, Ti or O atoms
\* at y = 0 or y = 3.60 A, so that its repeats along y have rows below, at and
\* above y = 7.5 A
SurfaceAtoms == {[z |-> z, y |-> y] : z \in {38, 22, 8}, y \in {0, 360}}

SurfaceCells ==
    {Atoms([k \in 1..Len(c) |-> c[k].z], [k \in 1..Len(c) |-> <<0, c[k].y, 0>>],
           <<552, 390, 552>>) :
       c \in UNION {[1..n -> SurfaceAtoms] : n \in 1..MaxSurfaceAtoms}}

DefaultSurface == Atoms(<<38>>, << <<0, 0, 0>> >>, <<552, 390, 552>>)

-----------------------------------------------------------------------------
(* The notebooks as processes *)

CellsOf(nb) ==
    CASE nb = "atomic" -> AtomicCells
      [] nb = "main" -> MainCells
      [] nb = "supplement" -> SuppCells
      [] nb = "nanoparticle" -> NanoCells

Done(nb) == pc[nb] > Len(CellsOf(nb))

\* the notebooks part-way through a run
Active == {n \in Notebooks : pc[n] > 1 /\ ~Done(n) /\ err[n] = "none"}

KernelOf(nb) ==
    [nb |-> nb, env |-> env[nb], heap |-> heap[nb], calls |-> calls[nb], err |-> err[nb],
     files |-> files, workers |-> workers[nb], surf |-> surf]

\* Run the next cell of notebook nb; a cell that raises stops the run there
RunCell(nb) ==
    /\ err[nb] = "none"
    /\ ~Done(nb)
    /\ pc[nb] > 1 \/ Cardinality(Active) < MaxActive
    /\ LET K == RunFrom(KernelOf(nb), CellsOf(nb)[pc[nb]], 1)
       IN  /\ pc' = [pc EXCEPT ![nb] = IF K.err = "none" THEN @ + 1 ELSE @]
           /\ err' = [err EXCEPT ![nb] = K.err]
           /\ env' = [env EXCEPT ![nb] = K.env]
           /\ heap' = [heap EXCEPT ![nb] = K.heap]
           /\ calls' = [calls EXCEPT ![nb] = K.calls]
           /\ files' = K.files
           /\ workers' = [workers EXCEPT ![nb] = K.workers]
    /\ UNCHANGED surf

RunAtomic == RunCell("atomic")

RunMain == RunCell("main")

RunSupplement == RunCell("supplement")

RunNanoparticle == RunCell("nanoparticle")

InitKernels ==
    /\ pc = [n \in Notebooks |-> 1]
    /\ err = [n \in Notebooks |-> "none"]
    /\ env = [n \in Notebooks |-> <<>>]
    /\ heap = [n \in Notebooks |-> <<>>]
    /\ calls = [n \in Notebooks |-> <<>>]
    /\ workers = [n \in Notebooks |-> 0]
    /\ files \in InitialFiles

Init == InitKernels /\ surf = DefaultSurface

Next == RunAtomic \/ RunMain \/ RunSupplement \/ RunNanoparticle

Spec == Init /\ [][Next]_vars

\* The atomic-models notebook alone, on every input structure of the bounds
InitAtoms == InitKernels /\ surf \in SurfaceCells

NextAtoms == RunAtomic

SpecAtoms == InitAtoms /\ [][NextAtoms]_vars

-----------------------------------------------------------------------------
(* What the claims are stated with *)

\* the object a name of a kernel is bound to
Var(nb, name) == heap[nb][env[nb][name]]

Bound(nb, name) == name \in DOMAIN env[nb]

\* the place of a cell in its notebook
IndexOf(cells, c) == CHOOSE i \in 1..Len(cells) : cells[i] = c

\* notebook nb runs its cell at index i in this step
Runs(nb, i) == pc[nb] = i /\ err[nb] = "none" /\ (pc'[nb] # pc[nb] \/ err'[nb] # err[nb])

\* the path holds something a notebook wrote
Written(p) == files[p].kind \in {"structure", "zarr", "gif"} /\ files[p].writer # "shipped"

ExportIndex == IndexOf(AtomicCells, ExportCell)

\* the cells that read sto_lto.cif
ReadIndices(nb) ==
    IF nb = "main" THEN {IndexOf(MainCells, MainReadCell)}
    ELSE {IndexOf(SuppCells, SuppReadCell), IndexOf(SuppCells, RecreateCell)}

\* a is b with La for the Sr atoms below y = 7.5 A, centred with 5 A of vacuum along z
IsCentredInterfaceOf(a, b) ==
    LET n == Len(b.numbers)
        zs == {a.positions[k][3] : k \in 1..n}
        zb == {b.positions[k][3] : k \in 1..n}
    IN  /\ Len(a.numbers) = n
        /\ \A k \in 1..n :
              /\ a.numbers[k] = IF b.numbers[k] = 38 /\ b.positions[k][2] < 750
                                THEN 57 ELSE b.numbers[k]
              /\ a.positions[k][1] = b.positions[k][1]
              /\ a.positions[k][2] = b.positions[k][2]
              /\ a.positions[k][3] - Min(zs) = b.positions[k][3] - Min(zb)
        /\ Min(zs) = 500
        /\ a.cell = <<b.cell[1], b.cell[2], Max(zs) + 500>>

\* the atoms that reader r holds are the model the atomic notebook wrote
HoldsWrittenModel(r) ==
    /\ Bound(r, "atoms")
    /\ Var(r, "atoms") = Var("atomic", "sto_lto")
    /\ IsCentredInterfaceOf(Var(r, "atoms"), Var("atomic", "repeated_srtio3"))

\* reader r has read the model and not failed since
ReadOk(r) == err[r] = "none" /\ HoldsWrittenModel(r)

-----------------------------------------------------------------------------
(* C1: from the write cell on, sto_lto.cif holds the sto_lto model and no    *)
(* cell (the graphene cells are the ones left) changes the file; a notebook *)
(* that is past a cell reading sto_lto.cif read it after the write and      *)
(* holds exactly the sto_lto model of the write cell, La-substituted and    *)
(* centred with vacuum along z; and when atomic_models_with_ase.ipynb has   *)
(* run to its end, a cell of the other notebooks that reads sto_lto.cif     *)
(* succeeds.                                                                *)
C1_ReadsSeeTheWrittenModel ==
    /\ [](pc["atomic"] > ExportIndex =>
            files["sto_lto.cif"] = StructureWrite(Var("atomic", "sto_lto"), "atomic"))
    /\ [](\A r \in {"main", "supplement"} :
            (\E i \in ReadIndices(r) : pc[r] > i) =>
                pc["atomic"] > ExportIndex /\ HoldsWrittenModel(r))
    /\ [][/\ \A r \in {"main", "supplement"} : \A i \in ReadIndices(r) :
                (Done("atomic") /\ Runs(r, i)) => err'[r] = "none" /\ pc'[r] = i + 1
          /\ pc["atomic"] > ExportIndex => files'["sto_lto.cif"] = files["sto_lto.cif"]]_vars

\* C1's case: the atomic notebook is done and both other notebooks have read the file
C1_Witness ==
    /\ Done("atomic")
    /\ pc["main"] > IndexOf(MainCells, MainReadCell)
    /\ pc["supplement"] > IndexOf(SuppCells, RecreateCell)
    /\ ReadOk("main") /\ ReadOk("supplement")

-----------------------------------------------------------------------------
(* C2: after atomic_models_with_ase.ipynb has run top to bottom, the file   *)
(* cluster_on_carbon.cfg exists, written by that notebook.                  *)
C2_AtomicBuildsCluster ==
    Done("atomic") =>
        /\ files["cluster_on_carbon.cfg"].kind = "structure"
        /\ files["cluster_on_carbon.cfg"].writer = "atomic"

\* the run that contradicts C2: the atomic notebook has run to its end in a
\* directory without cluster_on_carbon.cfg, and the supplement's read fails
C2_ReadFails ==
    /\ Done("atomic")
    /\ files["cluster_on_carbon.cfg"].kind = "absent"
    /\ pc["supplement"] = IndexOf(SuppCells, ReadClusterCell)
    /\ err["supplement"] = "FileNotFoundError"

-----------------------------------------------------------------------------
(* C3: no cell of any notebook creates or overwrites a file.                *)
C3_NoFileWritten == \A p \in Paths : ~Written(p)

(* C3 as amended: the notebooks write files, and only these: sto_lto.cif    *)
(* (atomic notebook), measurement_4d.zarr (supplement), potential.gif and   *)
(* cluster_on_carbon.cfg (nanoparticle notebook); srtio3.cif is never       *)
(* written.                                                                 *)
C3_OnlyTheseFilesWritten ==
    /\ \A p \in Paths :
          Written(p) =>
             <<p, files[p].writer>> \in
                {<<"sto_lto.cif", "atomic">>, <<"measurement_4d.zarr", "supplement">>,
                 <<"../intro_multislice/potential.gif", "nanoparticle">>,
                 <<"cluster_on_carbon.cfg", "nanoparticle">>}
    /\ files["srtio3.cif"] = Srtio3File

\* C3's case: three notebooks have each written their file
C3_Witness ==
    /\ Written("sto_lto.cif")
    /\ Written("measurement_4d.zarr")
    /\ Written("../intro_multislice/potential.gif")

-----------------------------------------------------------------------------
(* C4: a top-to-bottom run of the nanoparticle notebook in a fresh kernel   *)
(* comes to its last cell without error, with the name write bound, and the *)
(* last cell writes cluster_on_carbon.cfg.                                  *)
C4_NanoWritesCluster ==
    /\ pc["nanoparticle"] = Len(NanoCells) =>
          err["nanoparticle"] = "none" /\ Bound("nanoparticle", "write")
    /\ Done("nanoparticle") => Written("cluster_on_carbon.cfg")

\* the run that contradicts C4: the last cell raises NameError and writes nothing
C4_NameError ==
    /\ pc["nanoparticle"] = Len(NanoCells)
    /\ err["nanoparticle"] = "NameError"
    /\ ~Bound("nanoparticle", "write")
    /\ ~Written("cluster_on_carbon.cfg")

-----------------------------------------------------------------------------
Last(seq) == seq[Len(seq)]

\* the objects of class cls that the kernel of nb has made
ObjectsOf(nb, cls) ==
    {k \in 1..Len(heap[nb]) :
        IF heap[nb][k].kind = "object" THEN heap[nb][k].cls = cls ELSE FALSE}

(* C5: potential_array is unbound up to the build cell, a lazy task        *)
(* description from the build cell to the compute cell, and a computed      *)
(* NumPy array in every cell after the compute cell; the name is bound once *)
(* and stays on the one PotentialArray the kernel ever makes.               *)
C5_LazyUntilComputed ==
    LET b == IndexOf(MainCells, BuildCell)
        c == IndexOf(MainCells, ComputeCell)
        i == pc["main"]
    IN  /\ i <= b => ~Bound("main", "potential_array")
        /\ i > b =>
              /\ Bound("main", "potential_array")
              /\ ObjectsOf("main", "PotentialArray") = {env["main"]["potential_array"]}
              /\ Last(Var("main", "potential_array").of) = "build()"
        /\ (i > b /\ i <= c) => Var("main", "potential_array").array = "dask"
        /\ i > c => Var("main", "potential_array").array = "numpy"

\* C5's case: the notebook has run to its end, the array was lazy and is computed
C5_Witness ==
    /\ Done("main")
    /\ Var("main", "potential_array").array = "numpy"
    /\ calls["main"] # <<>>

-----------------------------------------------------------------------------
\* the data an object yields when computed: what its file holds, or what its
\* task graph computes
Contents(v) == IF v.of[1] = "from_zarr" THEN files[v.of[2]].data ELSE v.of

\* the measurement the supplement's probe.scan call made
Scanned4d ==
    heap["supplement"][CHOOSE k \in ObjectsOf("supplement", "DiffractionPatterns") :
                          heap["supplement"][k].of[1] # "from_zarr"]

-----------------------------------------------------------------------------
ThreadsArgs == "scheduler=threads, num_workers=2"

(* C7: in the supplement every compute call made while the Client is active *)
(* has no arguments, and when the Client exists the call                    *)
(* compute(scheduler="threads", num_workers=2) has already been made,       *)
(* without a client.                                                        *)
C7_NoArgumentsUnderClient ==
    LET cs == calls["supplement"]
    IN  /\ \A i \in 1..Len(cs) : cs[i].client => cs[i].args = ""
        /\ workers["supplement"] > 0 =>
              \E i \in 1..Len(cs) : cs[i].args = ThreadsArgs /\ ~cs[i].client
        /\ Done("supplement") => Last(cs).client

\* C7's case: a compute call was made under the Client
C7_Witness ==
    /\ Done("supplement")
    /\ \E i \in 1..Len(calls["supplement"]) : calls["supplement"][i].client

-----------------------------------------------------------------------------
(* C8: no notebook cell starts or leaves running any worker processes.      *)
C8_NoWorkersStarted == \A nb \in Notebooks : workers[nb] = 0

(* C8 as amended: the supplement's Client cell starts four worker processes *)
(* and leaves them running to the end of the notebook; no other cell starts *)
(* any; and the only compute call given scheduler arguments is the          *)
(* supplement's compute(scheduler="threads", num_workers=2).                *)
C8_OnlyTheClientCellStartsWorkers ==
    /\ \A nb \in Notebooks \ {"supplement"} : workers[nb] = 0
    /\ workers["supplement"] =
          IF pc["supplement"] > IndexOf(SuppCells, ClientCell) THEN 4 ELSE 0
    /\ \A nb \in Notebooks : \A i \in 1..Len(calls[nb]) :
          \/ calls[nb][i].args = ""
          \/ calls[nb][i].args = ThreadsArgs /\ nb = "supplement"

\* C8's case: the supplement has ended and its workers are still there
C8_Witness == Done("supplement") /\ workers["supplement"] = 4

-----------------------------------------------------------------------------
(* C9: the scan with detectors [bright, maadf, haadf] gives three           *)
(* measurements, the i-th made with the i-th detector, and the stack labels *)
(* them BF (0-20 mrad), MAADF (50-120 mrad), HAADF (100-180 mrad).          *)
C9_LabelsMatchDetectors ==
    pc["main"] > IndexOf(MainCells, StackCell) =>
        LET sc == Var("main", "scanned_measurements").items
            st == Var("main", "stacked_measurements").items
            labels == <<"BF", "MAADF", "HAADF">>
            names == <<"bright", "maadf", "haadf">>
            texts == <<"AnnularDetector(inner=0, outer=20)",
                       "AnnularDetector(inner=50, outer=120)",
                       "AnnularDetector(inner=100, outer=180)">>
        IN  /\ Len(sc) = 3 /\ Len(st) = 3
            /\ \A i \in 1..3 :
                  /\ st[i].label = labels[i]
                  /\ st[i].of = sc[i].of
                  /\ Last(sc[i].of) = texts[i]
                  /\ Var("main", names[i]).of = <<texts[i]>>

\* C9's case: the measurements are stacked
C9_Witness ==
    /\ pc["main"] = IndexOf(MainCells, StackCell) + 1
    /\ Len(Var("main", "stacked_measurements").items) = 3

-----------------------------------------------------------------------------
(* C10: after the interface cell sto_lto has La (57) exactly where          *)
(* repeated_srtio3 has Sr (38) at y < 7.5 A and the atomic number of        *)
(* repeated_srtio3 everywhere else; until the next cell its positions and   *)
(* cell are those of repeated_srtio3; the number of atoms is the same; and  *)
(* repeated_srtio3 is still the repeated surface cell.                      *)
C10_InterfaceCellFrame ==
    LET i == IndexOf(AtomicCells, InterfaceCell)
    IN  pc["atomic"] > i =>
          LET s == Var("atomic", "sto_lto")
              r == Var("atomic", "repeated_srtio3")
              n == Len(r.numbers)
          IN  /\ Len(s.numbers) = n /\ Len(s.positions) = n
              /\ \A k \in 1..n :
                    s.numbers[k] = IF r.numbers[k] = 38 /\ r.positions[k][2] < 750
                                   THEN 57 ELSE r.numbers[k]
              /\ pc["atomic"] = i + 1 => s.positions = r.positions /\ s.cell = r.cell
              /\ r = RepeatAtoms(Var("atomic", "srtio3_110"), <<3, 4, 10>>)
              /\ 57 \notin Range(r.numbers)

\* C10's case: the cell has run on a structure with Sr on both sides of y = 7.5 A
C10_Witness ==
    /\ pc["atomic"] = IndexOf(AtomicCells, InterfaceCell) + 1
    /\ LET s == Var("atomic", "sto_lto")
       IN  /\ \E k \in 1..Len(s.numbers) : s.numbers[k] = 57
           /\ \E k \in 1..Len(s.numbers) : s.numbers[k] = 38 /\ s.positions[k][2] = 750

-----------------------------------------------------------------------------
\* how many atoms of a have atomic number z
Count(a, z) == Cardinality({k \in 1..Len(a.numbers) : a.numbers[k] = z})

\* position in the notebook of cell 5ab06094, atoms.numbers[0] = 9
SetNumberIndex == IndexOf(AtomicCells, AtomsObjectCells[6])

\* position in the notebook of cell a296bc6a, atoms += ase.Atoms("N", ...)
ExtendIndex == IndexOf(AtomicCells, AtomsObjectCells[7])

(* C11: when the cell atoms.numbers[0] = 9 has run on the N2 molecule, atoms *)
(* is NO: two atoms, one nitrogen (7) and one oxygen (8).                   *)
C11_IsNO ==
    pc["atomic"] = SetNumberIndex + 1 =>
        /\ Len(Var("atomic", "atoms").numbers) = 2
        /\ Count(Var("atomic", "atoms"), 7) = 1
        /\ Count(Var("atomic", "atoms"), 8) = 1

\* the run that contradicts C11: the cell has run and atoms is NF, fluorine (9)
\* in the place of the first nitrogen and no oxygen
C11_IsNF ==
    /\ pc["atomic"] = SetNumberIndex + 1
    /\ Var("atomic", "atoms").numbers = <<9, 7>>
    /\ Count(Var("atomic", "atoms"), 8) = 0

-----------------------------------------------------------------------------
(* C12: after the cell atoms += ase.Atoms("N", positions=[(2.0, 0, 0)])      *)
(* atoms is nitrous oxide: three atoms, two N (7) and one O (8); the        *)
(* appended atom is N at (2, 0, 0); the two atoms present before keep their *)
(* positions and the cell is still [6, 6, 6].                               *)
C12_IsN2O ==
    pc["atomic"] > ExtendIndex =>
        LET a == Var("atomic", "atoms")
        IN  /\ Len(a.numbers) = 3 /\ Len(a.positions) = 3
            /\ Count(a, 7) = 2 /\ Count(a, 8) = 1
            /\ a.numbers[3] = 7 /\ a.positions[3] = <<200, 0, 0>>
            /\ a.positions[1] = <<0, 0, 0>> /\ a.positions[2] = <<100, 0, 0>>
            /\ a.cell = <<600, 600, 600>>

\* the run that contradicts C12: the atom is appended as claimed and nothing
\* else changes, but the molecule is F, N, N: there is no oxygen in it
C12_IsFN2 ==
    /\ pc["atomic"] = ExtendIndex + 1
    /\ LET a == Var("atomic", "atoms")
       IN  /\ a.numbers = <<9, 7, 7>>
           /\ a.positions = << <<0, 0, 0>>, <<100, 0, 0>>, <<200, 0, 0>> >>
           /\ a.cell = <<600, 600, 600>>

-----------------------------------------------------------------------------
(* C13: repeated_srtio3 is srtio3_110 repeated 2 times in x, 4 in y and 10   *)
(* in z: it has 2*4*10 times the atoms and 2, 4 and 10 times the cell       *)
(* lengths of srtio3_110.                                                   *)
C13_RepeatedTwoFourTen ==
    pc["atomic"] > IndexOf(AtomicCells, RepeatCell) =>
        LET r == Var("atomic", "repeated_srtio3")
            u == Var("atomic", "srtio3_110")
        IN  /\ Len(r.numbers) = 2 * 4 * 10 * Len(u.numbers)
            /\ r.cell = <<2 * u.cell[1], 4 * u.cell[2], 10 * u.cell[3]>>

\* the run that contradicts C13: the repeat is 3 times in x, 4 in y, 10 in z
C13_RepeatedThreeFourTen ==
    /\ pc["atomic"] = IndexOf(AtomicCells, RepeatCell) + 1
    /\ LET r == Var("atomic", "repeated_srtio3")
           u == Var("atomic", "srtio3_110")
       IN  /\ Len(r.numbers) = 3 * 4 * 10 * Len(u.numbers)
           /\ r.cell = <<3 * u.cell[1], 4 * u.cell[2], 10 * u.cell[3]>>

-----------------------------------------------------------------------------
\* position of the cell that makes the grid scan: cell 4b82bec1 of the main
\* notebook, the cell that recreates potential, probe and scan in the supplement
ScanIndex(nb) ==
    IF nb = "main" THEN IndexOf(MainCells, MainScanCells[1])
    ELSE IndexOf(SuppCells, RecreateCell)

====
